---- MODULE Spec2Model ----
(***************************************************************************)
(* Attendance bot (bot.py): six groups report a count with /asistencia;    *)
(* the state is kept in a module-level dict and in data.json; when all six *)
(* hold a value a summary is replied and broadcast and the dict is reset.  *)
(*                                                                         *)
(* Handlers are coroutines: every "await" (a reply or a broadcast) is a    *)
(* suspension point and may raise.  A handler is modelled as one action    *)
(* for the code up to its first await and one action per resumption.       *)
(***************************************************************************)
EXTENDS Integers, Sequences, FiniteSets, TLC

(* ------------------------------ bounds -------------------------------- *)
\* largest attendance count a report carries in the model
MaxCount == 1
\* number of handler coroutines the event loop could hold at once
MaxHandlers == 2

(* --------------------------- Python values ---------------------------- *)
None == <<"None">>
PyInt(n) == <<"int", n>>
\* a str, as its sequence of characters
PyStr(s) == <<"str", s>>
IsInt(v) == v[1] = "int"

\* outcome of a call: a returned value or a raised exception
Return(v) == [raised |-> FALSE, value |-> v]
Raise(e) == [raised |-> TRUE, value |-> PyStr(<<e>>)]

\* a test that takes every value as set
TruthyAlways(v) == TRUE

\* bool(v) for the values an environment variable can have
Truthy(v) == v /= None /\ v /= PyStr(<<>>)

(* ------------------------------- int() -------------------------------- *)
DigitVal == [c \in {"0", "1", "2", "3", "4", "5", "6", "7", "8", "9"} |->
               CASE c = "0" -> 0 [] c = "1" -> 1 [] c = "2" -> 2 [] c = "3" -> 3
                 [] c = "4" -> 4 [] c = "5" -> 5 [] c = "6" -> 6 [] c = "7" -> 7
                 [] c = "8" -> 8 [] c = "9" -> 9]

IsDigits(s) == Len(s) >= 1 /\ \A i \in 1..Len(s) : s[i] \in DOMAIN DigitVal

RECURSIVE DecVal(_)
DecVal(s) == IF s = <<>> THEN 0
             ELSE 10 * DecVal(SubSeq(s, 1, Len(s) - 1)) + DigitVal[s[Len(s)]]

\* int(s) of a str s: an optional sign and decimal digits, ValueError otherwise
int(s) ==
    LET signed == Len(s) >= 1 /\ s[1] \in {"+", "-"}
        body == IF signed THEN Tail(s) ELSE s
        neg == signed /\ s[1] = "-"
    IN  IF ~IsDigits(body) THEN Raise("ValueError")
        ELSE Return(PyInt(IF neg THEN 0 - DecVal(body) ELSE DecVal(body)))

(* ------------------------------ GROUPS -------------------------------- *)
\* str(i)
str(i) == CHOOSE c \in DOMAIN DigitVal : DigitVal[c] = i

\* GROUPS = [str(i) for i in range(1, 7)]
GROUPS == [i \in 1..6 |-> str(i)]
GroupSet == {GROUPS[i] : i \in DOMAIN GROUPS}

(* ----------------------------- data.json ------------------------------ *)
\* JSON values
JNull == <<"null">>
JNumber(n) == <<"number", n>>
JString(s) == <<"string", s>>
JArray == <<"array">>
JObject(f) == <<"object", f>>

\* the file: absent, present but unreadable, not JSON, or a JSON document
Missing == <<"missing">>
Unreadable == <<"unreadable">>
NotJson == <<"notjson">>
Json(v) == <<"json", v>>

\* json.load's decoding of a scalar
FromJson(j) == CASE j[1] = "null" -> None
                 [] j[1] = "number" -> PyInt(j[2])
                 [] j[1] = "string" -> PyStr(j[2])
                 [] OTHER -> PyStr(<<"[", "]">>)

\* json.dump's encoding of a value of the dict
ToJson(v) == CASE v[1] = "None" -> JNull
               [] v[1] = "int" -> JNumber(v[2])
               [] OTHER -> JString(v[2])

\* data.get(g) or None: a stored 0 read as unset
DictGetFalsy(f, g) ==
    IF g \in DOMAIN f /\ FromJson(f[g]) \notin {PyInt(0), PyStr(<<>>)}
    THEN FromJson(f[g]) ELSE None

\* data.get(g)
DictGet(f, g) == IF g \in DOMAIN f THEN FromJson(f[g]) ELSE None

\* lines 33-35: open, json.load and the dict comprehension
load_try(f) ==
    CASE f = Unreadable -> Raise("OSError")
      [] f = NotJson -> Raise("JSONDecodeError")
      [] f[1] = "json" /\ f[2][1] /= "object" -> Raise("AttributeError")
      [] OTHER -> Return([g \in GroupSet |->
                     IF DictGet(f[2][2], g) /= None THEN DictGet(f[2][2], g) ELSE None])

\* the handler of the try statement: except Exception
load_catches(r) == r.raised

AllNone == [g \in GroupSet |-> None]

\* a start that ignores the record on disk
load_state_fresh(f) == Return(AllNone)

load_state(f) ==
    IF f /= Missing
    THEN LET r == load_try(f)
         IN  IF ~r.raised THEN r
             ELSE IF load_catches(r) THEN Return(AllNone) ELSE r
    ELSE Return(AllNone)

\* save_state writing a count of 0 as null
save_state_falsy(st) ==
    Json(JObject([g \in GroupSet |-> IF st[g] = PyInt(0) THEN JNull ELSE ToJson(st[g])]))

\* the content of data.json after save_state(st)
save_state(st) == Json(JObject([g \in GroupSet |-> ToJson(st[g])]))

(* ------------------------------- state -------------------------------- *)
VARIABLES
    REPORT_CHAT_ID,  \* os.getenv("REPORT_CHAT_ID"): None or a str
    file,            \* the content of data.json
    state,           \* the module-level dict
    hs,              \* the handler coroutines of the event loop, by slot
    done,            \* what ran last and has ended, if that was load_state or an
                     \* /asistencia handler: its arguments and whether it reset the
                     \* state; kept while the /estado that follows it runs, and
                     \* forgotten when any other handler starts
    summarised       \* the requesting chat has received a summary and the values it
                     \* listed have not been reset since

vars == <<REPORT_CHAT_ID, file, state, hs, done, summarised>>

Slots == 1..MaxHandlers

\* a slot with no handler in it
Idle == [pc |-> "idle", kind |-> "none", valid |-> FALSE, invalid |-> FALSE,
         grupo |-> "", numero |-> 0, full |-> FALSE, mensaje |-> <<>>,
         out |-> <<>>, reset |-> FALSE, raised |-> FALSE, sent |-> <<>>]

(* ------------------------------ inputs -------------------------------- *)
\* first arguments of /asistencia: the six groups and three others
GroupTokens == GroupSet \cup {"0", "7", "x"}

InputDigits == {c \in DOMAIN DigitVal : DigitVal[c] <= MaxCount}

\* second arguments: the digits, and a letter, signed and zero-padded numbers
CountTokens == {<<c>> : c \in InputDigits}
               \cup {<<"x">>, <<"-", "1">>, <<"-", "0">>, <<"+", "1">>, <<"0", "1">>}

\* context.args of an /asistencia command: too few and too many, every group
\* with every digit, the other first arguments with a digit, group 1 with the
\* other second arguments
ArgLists == {<<>>, <<"1">>, <<"1", <<"1">>, <<"1">>>>}
            \cup {<<g, <<c>>>> : g \in GroupSet, c \in InputDigits}
            \cup {<<g, <<"1">>>> : g \in GroupTokens}
            \cup {<<"1", c>> : c \in CountTokens}

\* contents of data.json found at start
FileKeys == {{}, {"1"}, {"1", "7"}}
FileScalars == {JNull, JNumber(0), JNumber(0 - 1), JString(<<"x">>)}
InitFiles == {Missing, Unreadable, NotJson, Json(JNull), Json(JArray), Json(JNumber(0))}
             \cup {Json(JObject([k \in K |-> v])) : K \in FileKeys, v \in FileScalars}
             \cup {Json(JObject([k \in GroupSet |-> v])) : v \in {JNull, JNumber(0)}}

EnvValues == {None, PyStr(<<"-", "1">>), PyStr(<<"x">>)}

(* ---------------------------- the handlers ---------------------------- *)
\* all(v is not None for v in state.values())
all_reported(st) == \A g \in GroupSet : st[g] /= None

RECURSIVE SumFrom(_, _)
SumFrom(st, i) == IF i > Len(GROUPS) THEN 0 ELSE st[GROUPS[i]][2] + SumFrom(st, i + 1)

\* a sum that leaves the first group out
sum_from_second(st) == IF \E g \in GroupSet : ~IsInt(st[g]) THEN Raise("TypeError")
                       ELSE Return(PyInt(SumFrom(st, 2)))

\* sum(state.values()): int + str and int + None raise TypeError
sum(st) == IF \E g \in GroupSet : ~IsInt(st[g]) THEN Raise("TypeError")
           ELSE Return(PyInt(SumFrom(st, 1)))

\* lines 87-90: the summary text, as the total and the value listed for each group
Resumen(total, st) == <<"resumen", total, [g \in GroupSet |-> st[g]]>>

\* a status text that tests "not state[g]" and so shows a count of 0 as pending
EstadoTextoFalsy(st) == <<"estado", [g \in GroupSet |->
                           IF st[g] = None \/ st[g] = PyInt(0)
                           THEN <<"pendiente">> ELSE <<"asistentes", st[g]>>]>>

\* lines 110-115: the status text, as what it shows for each group
EstadoTexto(st) == <<"estado", [g \in GroupSet |->
                      IF st[g] = None THEN <<"pendiente">> ELSE <<"asistentes", st[g]>>]>>

\* lines 104-105
reset_state(st) == [g \in GroupSet |-> None]

\* a validation without the test numero < 0
ValidateNoSign(args) ==
    IF Len(args) /= 2 THEN "formato"
    ELSE IF args[1] \notin GroupSet THEN "grupo"
    ELSE IF int(args[2]).raised THEN "numero" ELSE ""

\* lines 62-77: the reply that rejects the arguments, or "" when they are accepted
Validate(args) ==
    IF Len(args) /= 2 THEN "formato"
    ELSE IF args[1] \notin GroupSet THEN "grupo"
    ELSE LET r == int(args[2])
         IN  IF r.raised \/ r.value[2] < 0 THEN "numero" ELSE ""

\* the import of the module did not end in an exception
Started == ~(done.kind = "load_state" /\ done.raised)

\* an application built with concurrent_updates(True): an update is handled as it
\* arrives
CanDispatchConcurrent == TRUE

\* run_polling without concurrent_updates: an update is handled when no handler is
\* pending
CanDispatch == \A k \in Slots : hs[k].pc = "idle"

Dispatchable(h) == /\ Started
                   /\ CanDispatch
                   /\ hs[h].pc = "idle"
                   /\ \A k \in Slots : k < h => hs[k].pc /= "idle"

Emit(r, ev, ok) == [r EXCEPT !.out = Append(@, <<ev, ok>>)]

\* a message awaited by the handler r reaches its destination when the call returns
Deliver(r, dest, text, ok) == IF ok THEN [r EXCEPT !.sent = Append(@, <<dest, text>>)] ELSE r

\* int(REPORT_CHAT_ID) at line 98: int(None) raises TypeError
chat_id(v) == IF v[1] /= "str" THEN Raise("TypeError") ELSE int(v[2])

\* an assignment that drops the values of the other groups
setitem_alone(st, grupo, numero) == [g \in DOMAIN st |-> IF g = grupo THEN numero ELSE None]

\* state[grupo] = numero at line 79
setitem(st, grupo, numero) == [st EXCEPT ![grupo] = numero]

\* the handler in slot h ends, by a return or by an exception
Finish(h, r, exc) ==
    /\ hs' = [hs EXCEPT ![h] = Idle]
    /\ done' = IF r.kind = "asistencia"
               THEN [r EXCEPT !.pc = "idle", !.mensaje = <<>>, !.out = <<>>]
               ELSE Idle

\* what the specification calls a validation error: an argument count other than
\* two, a group id outside 1..6, a count that is not an integer or is negative
FailsValidation(args) ==
    \/ Len(args) /= 2
    \/ args[1] \notin {"1", "2", "3", "4", "5", "6"}
    \/ int(args[2]).raised
    \/ int(args[2]).value[2] < 0

\* /start and /help, up to the await of the reply
start(h) ==
    /\ Dispatchable(h)
    /\ hs' = [hs EXCEPT ![h] = [Idle EXCEPT !.pc = "info", !.kind = "start"]]
    /\ done' = Idle
    /\ UNCHANGED <<REPORT_CHAT_ID, file, state, summarised>>

\* /getchatid, up to the await of the reply
getchat(h) ==
    /\ Dispatchable(h)
    /\ hs' = [hs EXCEPT ![h] = [Idle EXCEPT !.pc = "chatid", !.kind = "getchatid"]]
    /\ done' = Idle
    /\ UNCHANGED <<REPORT_CHAT_ID, file, state, summarised>>

\* a status query that writes the record it has read
estado_saves(h) ==
    /\ Dispatchable(h)
    /\ hs' = [hs EXCEPT ![h] = [Idle EXCEPT !.pc = "estado", !.kind = "estado",
                                            !.mensaje = EstadoTexto(state)]]
    /\ file' = save_state(state)
    /\ UNCHANGED <<REPORT_CHAT_ID, state, done, summarised>>

\* /estado, up to the await of the reply
estado(h) ==
    /\ Dispatchable(h)
    /\ hs' = [hs EXCEPT ![h] = [Idle EXCEPT !.pc = "estado", !.kind = "estado",
                                            !.mensaje = EstadoTexto(state)]]
    /\ UNCHANGED <<REPORT_CHAT_ID, file, state, done, summarised>>

\* /asistencia, up to its first await: the rejection reply or the acknowledgment
asistencia_cmd(h, args) ==
    /\ Dispatchable(h)
    /\ LET why == Validate(args)
           r == [Idle EXCEPT !.kind = "asistencia", !.invalid = FailsValidation(args)]
       IN  IF why /= ""
           THEN /\ hs' = [hs EXCEPT ![h] = [r EXCEPT !.pc = "reject"]]
                /\ UNCHANGED <<state, file>>
           ELSE LET grupo == args[1]
                    numero == int(args[2]).value
                IN  /\ numero[2] <= MaxCount
                    /\ state' = setitem(state, grupo, numero)
                    /\ file' = save_state(state')
                    /\ hs' = [hs EXCEPT ![h] =
                                Emit([r EXCEPT !.pc = "ack", !.valid = TRUE,
                                               !.grupo = grupo, !.numero = numero[2],
                                               !.full = \A g \in GroupSet : state'[g] /= None],
                                     "save", TRUE)]
    /\ done' = Idle
    /\ UNCHANGED <<REPORT_CHAT_ID, summarised>>

\* the reply a handler ends with returns or raises (lines 51, 63, 68, 76, 116, 122)
reply_returns(h, ok) ==
    /\ hs[h].pc \in {"info", "chatid", "estado", "reject"}
    /\ Finish(h, Emit(hs[h], hs[h].pc, ok), ~ok)
    /\ UNCHANGED <<REPORT_CHAT_ID, file, state, summarised>>

\* lines 104-106 and the return
ResetAndFinish(h, r) ==
    /\ state' = reset_state(state)
    /\ file' = save_state(state')
    /\ summarised' = FALSE
    /\ Finish(h, [Emit(r, "reset", TRUE) EXCEPT !.reset = TRUE], FALSE)

\* line 82 returns or raises; lines 85-90
asistencia_ack(h, ok) ==
    /\ hs[h].pc = "ack"
    /\ LET r == Emit(hs[h], "ack", ok)
       IN  IF ~ok THEN Finish(h, r, TRUE)
           ELSE IF ~all_reported(state) THEN Finish(h, r, FALSE)
           ELSE LET total == sum(state)
                IN  IF total.raised THEN Finish(h, Emit(r, "sum", FALSE), TRUE)
                    ELSE /\ hs' = [hs EXCEPT ![h] =
                                     [r EXCEPT !.pc = "summary",
                                               !.mensaje = Resumen(total.value, state)]]
                         /\ UNCHANGED done
    /\ UNCHANGED <<REPORT_CHAT_ID, file, state, summarised>>

\* line 93 returns or raises; lines 96-98 up to the await of send_message
asistencia_summary(h, ok) ==
    /\ hs[h].pc = "summary"
    /\ LET r == Deliver(Emit(hs[h], "summary", ok), "chat", hs[h].mensaje, ok)
       IN  IF ~ok THEN Finish(h, r, TRUE) /\ UNCHANGED <<file, state, summarised>>
           ELSE IF ~Truthy(REPORT_CHAT_ID) THEN ResetAndFinish(h, r)
           ELSE /\ hs' = [hs EXCEPT ![h] =
                            IF chat_id(REPORT_CHAT_ID).raised
                            THEN [Emit(r, "chat_id", FALSE) EXCEPT !.pc = "warn"]
                            ELSE [r EXCEPT !.pc = "broadcast"]]
                /\ summarised' = TRUE
                /\ UNCHANGED <<file, state, done>>
    /\ UNCHANGED REPORT_CHAT_ID

\* line 98 returns or raises; lines 99-101 up to the await of the warning
asistencia_broadcast(h, ok) ==
    /\ hs[h].pc = "broadcast"
    /\ LET r == Deliver(Emit(hs[h], "broadcast", ok), "report", hs[h].mensaje, ok)
       IN  IF ok THEN ResetAndFinish(h, r)
           ELSE /\ hs' = [hs EXCEPT ![h] = [r EXCEPT !.pc = "warn"]]
                /\ UNCHANGED <<file, state, done, summarised>>
    /\ UNCHANGED REPORT_CHAT_ID

\* line 101 returns or raises
asistencia_warn(h, ok) ==
    /\ hs[h].pc = "warn"
    /\ LET r == Deliver(Emit(hs[h], "warn", ok), "chat", <<"aviso">>, ok)
       IN  IF ok THEN ResetAndFinish(h, r)
           ELSE Finish(h, r, TRUE) /\ UNCHANGED <<file, state, summarised>>
    /\ UNCHANGED REPORT_CHAT_ID

(* --------------------------- specification ---------------------------- *)
\* lines 17 and 46: the environment is read and data.json is loaded at import
Init ==
    /\ REPORT_CHAT_ID \in EnvValues
    /\ file \in InitFiles
    /\ state = load_state(file).value
    /\ hs = [h \in Slots |-> Idle]
    /\ done = [Idle EXCEPT !.kind = "load_state", !.raised = load_state(file).raised]
    /\ summarised = FALSE

Dispatch ==
    \E h \in Slots :
        \/ start(h)
        \/ getchat(h)
        \/ estado(h)
        \/ \E args \in ArgLists : asistencia_cmd(h, args)

Resume ==
    \E h \in Slots, ok \in BOOLEAN :
        \/ reply_returns(h, ok)
        \/ asistencia_ack(h, ok)
        \/ asistencia_summary(h, ok)
        \/ asistencia_broadcast(h, ok)
        \/ asistencia_warn(h, ok)

Next == Dispatch \/ Resume

Spec == Init /\ [][Next]_vars

(* ------------------------- stops and restarts ------------------------- *)
\* the process is started again on the record f: the handlers that were in
\* flight are gone and load_state runs at import
Restarted(f) ==
    LET loaded == load_state(f)
    IN  /\ hs' = [h \in Slots |-> Idle]
        /\ state' = loaded.value
        /\ done' = [Idle EXCEPT !.kind = "load_state", !.raised = loaded.raised]
        /\ UNCHANGED REPORT_CHAT_ID

\* the process stops between two steps of its handlers, or while none runs,
\* and is started again
restart ==
    /\ Restarted(file)
    /\ UNCHANGED <<file, summarised>>

\* the process stops inside the save_state of line 80, after open(..., "w") has
\* truncated data.json and before json.dump has written it, and is started
\* again; the valid report being handled can be any, its value is not written
stopped_in_save(h) ==
    /\ Dispatchable(h)
    /\ file' = NotJson
    /\ Restarted(file')
    /\ summarised' = FALSE

\* the same inside the save_state of line 106, the deliveries being done
stopped_in_reset(h) ==
    /\ \/ hs[h].pc = "summary" /\ ~Truthy(REPORT_CHAT_ID)
       \/ hs[h].pc \in {"broadcast", "warn"}
    /\ file' = NotJson
    /\ Restarted(file')
    /\ summarised' = FALSE

Stop ==
    \/ restart
    \/ \E h \in Slots : stopped_in_save(h) \/ stopped_in_reset(h)

NextOrStop == Next \/ Stop

SpecCrash == Init /\ [][NextOrStop]_vars

(* ------------------------------ fairness ------------------------------ *)
\* every awaited call returns or raises in the end, so a handler that has
\* started runs to its end; a call that is awaited again and again does not
\* raise every time; commands keep arriving, of whatever kind.
Fairness ==
    /\ WF_vars(Resume)
    /\ SF_vars(\E h \in Slots : reply_returns(h, TRUE))
    /\ SF_vars(\E h \in Slots : asistencia_ack(h, TRUE))
    /\ SF_vars(\E h \in Slots : asistencia_summary(h, TRUE))
    /\ SF_vars(\E h \in Slots : asistencia_broadcast(h, TRUE))
    /\ SF_vars(\E h \in Slots : asistencia_warn(h, TRUE))
    /\ WF_vars(Dispatch)

SpecFair == Init /\ [][Next]_vars /\ Fairness

(* ------------------------------ claims -------------------------------- *)
\* every group pending, in memory and in data.json
AllPending == \A g \in GroupSet : state[g] = None
PersistedPending == file = Json(JObject([g \in GroupSet |-> JNull]))

\* an /asistencia handler that passed validation has ended, and nothing ran since
ReportEnded == done.kind = "asistencia" /\ done.valid /\ \A h \in Slots : hs[h].pc = "idle"

\* C1: when the handling of a valid report that left all six groups with a value
\* ends, every group is pending in memory and in the persisted record.
C1_ResetAfterCompletion ==
    (ReportEnded /\ done.full) => (AllPending /\ PersistedPending)

\* C2 as stated: a valid report g n followed directly by /estado shows g as
\* reported with value n.
C2_EstadoShowsReport ==
    \A h \in Slots :
        (hs[h].kind = "estado" /\ done.kind = "asistencia" /\ done.valid)
        => hs[h].mensaje[2][done.grupo] = <<"asistentes", PyInt(done.numero)>>

\* C2 amended: a valid report g n followed directly by /estado shows g as reported
\* with value n, unless the report's handler reset the state (the report completed
\* the round and the handler ran to its end), and then /estado shows g as pending.
C2_EstadoShowsReportOrReset ==
    \A h \in Slots :
        (hs[h].kind = "estado" /\ done.kind = "asistencia" /\ done.valid)
        => hs[h].mensaje[2][done.grupo] =
              IF done.reset THEN <<"pendiente">> ELSE <<"asistentes", PyInt(done.numero)>>

\* a status query runs right after a report that did not reset the state, and
\* another right after one that did
C2_Witness ==
    \E h \in Slots :
        /\ hs[h].kind = "estado" /\ done.kind = "asistencia" /\ done.valid
        /\ ~done.reset /\ done.numero = MaxCount

C2_WitnessReset ==
    \E h \in Slots :
        hs[h].kind = "estado" /\ done.kind = "asistencia" /\ done.valid /\ done.reset

\* C3: an /asistencia command that fails validation only awaits its rejection
\* reply and ends: no step of its handling changes the state or data.json, and it
\* builds no summary.
C3_InvalidChangesNothing ==
    [][\A h \in Slots :
          (/\ hs'[h] /= hs[h]
           /\ \/ hs[h].kind = "asistencia" /\ hs[h].invalid
              \/ hs'[h].kind = "asistencia" /\ hs'[h].invalid)
          => /\ state' = state
             /\ file' = file
             /\ hs[h].pc \in {"idle", "reject"}
             /\ hs'[h].pc \in {"idle", "reject"}
             /\ hs'[h].mensaje = <<>>]_vars

\* a rejected command has ended while a group holds a value
C3_Witness ==
    /\ done.kind = "asistencia" /\ done.invalid /\ ~done.valid
    /\ \A h \in Slots : hs[h].pc = "idle"
    /\ ~AllPending

\* C4: the state maps exactly the six group ids, each to unset or to a
\* non-negative integer, in every reachable state, the one load_state gives at
\* start included.
C4_StateShape ==
    /\ DOMAIN state = {"1", "2", "3", "4", "5", "6"}
    /\ \A g \in DOMAIN state : state[g] = None \/ (IsInt(state[g]) /\ state[g][2] >= 0)

\* the sum of the six values of a state of integers, group by group
ExactSum(st) == st["1"][2] + st["2"][2] + st["3"][2] + st["4"][2] + st["5"][2] + st["6"][2]

Summarised(r) == r.kind = "asistencia" /\ r.mensaje /= <<>>

\* C5: from the moment a summary is built until its handler ends, the total it states
\* is the exact sum of the six values held in the state and the value it lists for
\* each group is the value held for that group, the one just reported included.
C5_SummaryIsState ==
    \A h \in Slots :
        Summarised(hs[h])
        => /\ hs[h].mensaje[2] = PyInt(ExactSum(state))
           /\ \A g \in GroupSet : hs[h].mensaje[3][g] = state[g]
           /\ hs[h].mensaje[3][hs[h].grupo] = PyInt(hs[h].numero)

\* a summary of six values that are not all equal is awaiting delivery
C5_Witness ==
    \E h \in Slots :
        /\ hs[h].pc = "summary"
        /\ hs[h].mensaje[2] = PyInt(3 * MaxCount)
        /\ state["6"] = PyInt(MaxCount)

C6_WitnessReport == ReportEnded /\ ~done.full /\ state[done.grupo] = PyInt(MaxCount)

\* send_message raised in the handler r
BroadcastFailed(r) == \E i \in DOMAIN r.out : r.out[i] = <<"broadcast", FALSE>>

\* C7: when the round completes and the delivery to the secondary destination
\* fails, the handler goes on to warn the user and ends with the state reset to
\* all-pending and persisted.
C7_ResetAfterFailedBroadcast ==
    [][\A h \in Slots :
          (BroadcastFailed(hs[h]) /\ hs'[h].pc = "idle")
          => (hs[h].pc = "warn" /\ (AllPending /\ PersistedPending)')]_vars

\* a data.json that is a record of the six group keys, each absent, null or an
\* integer
RecordShaped(f) ==
    /\ f[1] = "json"
    /\ f[2][1] = "object"
    /\ \A g \in GroupSet \cap DOMAIN f[2][2] : f[2][2][g][1] \in {"null", "number"}

\* C8: load_state raises nothing, and from a data.json that is missing, unreadable,
\* unparseable or not a record of the expected shape it returns all six pending.
C8_LoadFailsOpen ==
    done.kind = "load_state"
    => /\ ~done.raised
       /\ ~RecordShaped(file) => AllPending

\* C9: a handler has built a completion summary by the time it ends if and only if
\* it handled a valid report after which all six groups held a value.
C9_SummaryIffComplete ==
    [][\A h \in Slots :
          (hs[h].pc /= "idle" /\ hs'[h].pc = "idle")
          => ((hs[h].kind = "asistencia" /\ hs[h].mensaje /= <<>>)
              <=> (hs[h].kind = "asistencia" /\ hs[h].valid /\ hs[h].full))]_vars

\* C10: whenever a handler takes a step (starts, resumes or ends), no other
\* handler is pending, before or after the step.
C10_OneHandlerAtATime ==
    [][\A h \in Slots :
          hs'[h] /= hs[h]
          => \A k \in Slots \ {h} : hs[k].pc = "idle" /\ hs'[k].pc = "idle"]_vars

\* a completing report is suspended between its mutation and its reset, all six
\* groups holding a value, and no other handler is pending
C10_Witness ==
    \E h \in Slots :
        /\ hs[h].pc \in {"summary", "broadcast", "warn"}
        /\ all_reported(state)
        /\ \A k \in Slots \ {h} : hs[k].pc = "idle"

\* a secondary destination is configured: REPORT_CHAT_ID is set and not empty
Configured == REPORT_CHAT_ID /= None /\ REPORT_CHAT_ID /= PyStr(<<>>)

Aviso == <<"aviso">>

\* the handlers in flight and the last handler that ended
Records == {hs[h] : h \in Slots} \cup {done}

\* the texts that reached the destination dest in the handler r
Got(r, dest) == {r.sent[i][2] : i \in {j \in DOMAIN r.sent : r.sent[j][1] = dest}}

C11_WitnessNone == done.reset /\ ~Configured /\ Got(done, "chat") /= {}

ReadOnlyKinds == {"start", "getchatid", "estado"}

\* the text shows g pending exactly when st[g] is unset, otherwise its value
Renders(text, st) ==
    /\ text[1] = "estado"
    /\ \A g \in GroupSet :
          /\ text[2][g] = <<"pendiente">> <=> st[g] = None
          /\ st[g] /= None => text[2][g] = <<"asistentes", st[g]>>

\* C12: every step of a /estado, /start, /help or /getchatid handler leaves the
\* state in memory and the persisted record as they were, and the text /estado
\* builds shows each group pending exactly when its value is unset and
\* otherwise reported with its current value.
C12_ReadOnlyCommands ==
    [][\A h \in Slots :
          /\ (hs[h].kind \in ReadOnlyKinds \/ hs'[h].kind \in ReadOnlyKinds)
                => state' = state /\ file' = file
          /\ hs'[h].pc = "estado" => Renders(hs'[h].mensaje, state')]_vars

\* /estado is answering with a group unset, a group at 0 and a group above 0
C12_Witness ==
    \E h \in Slots :
        /\ hs[h].pc = "estado"
        /\ \E g1, g2, g3 \in GroupSet :
              state[g1] = None /\ state[g2] = PyInt(0) /\ state[g3] = PyInt(1)
        /\ Renders(hs[h].mensaje, state)

\* C13: a valid report is accepted in whatever state it arrives, also when its
\* group already holds a value: the step that handles it sets the group to the
\* new value, leaves every other group as it was, writes the record that reads
\* back as the new state and goes on to the acknowledgment; when the group
\* already held a value the groups that are reported stay the same.
C13_ValidReportAccepted ==
    [][\A h \in Slots :
          (hs[h].pc = "idle" /\ hs'[h].kind = "asistencia" /\ ~hs'[h].invalid) =>
              LET g == hs'[h].grupo
                  n == hs'[h].numero
              IN  /\ hs'[h].pc = "ack"
                  /\ g \in GroupSet /\ n >= 0
                  /\ state'[g] = PyInt(n)
                  /\ \A o \in GroupSet \ {g} : state'[o] = state[o]
                  /\ load_state(file') = Return(state')
                  /\ state[g] /= None
                        => \A o \in GroupSet : state'[o] = None <=> state[o] = None]_vars

\* the acknowledgment of a report is awaited while the values of the round, its
\* group's earlier value among them, are those of a summary already delivered:
\* the report has replaced a value its group already held
C13_Witness ==
    \E h \in Slots :
        /\ hs[h].pc = "ack" /\ summarised
        /\ state[hs[h].grupo] = PyInt(hs[h].numero)

\* what the handler r of a valid report has done so far, in order, is what the
\* claimed order allows at the await it has reached
LogInOrder(r) ==
    LET saved == <<"save", TRUE>>
        acked == <<"ack", TRUE>>
        told  == <<"summary", TRUE>>
    IN  CASE r.pc = "ack"       -> r.out = <<saved>>
          [] r.pc = "summary"   -> r.out = <<saved, acked>>
          [] r.pc = "broadcast" -> r.out = <<saved, acked, told>> /\ Configured
          [] r.pc = "warn"      -> /\ Configured
                                   /\ r.out \in {<<saved, acked, told, <<"broadcast", FALSE>>>>,
                                                 <<saved, acked, told, <<"chat_id", FALSE>>>>}
          [] OTHER              -> TRUE

\* the deliveries of a handler that went on to the reset, in order
SentBeforeReset(r) ==
    \E m \in Got(r, "chat") \ {Aviso} :
        r.sent \in {<<<<"chat", m>>>>,
                    <<<<"chat", m>>, <<"report", m>>>>,
                    <<<<"chat", m>>, <<"chat", Aviso>>>>}

\* C14: the handler of a valid report persists the new value, then
\* acknowledges, then delivers the summary to the requesting chat, then sends it
\* to the secondary destination if one is configured, then warns if that failed;
\* the state becomes all pending only in a step that ends such a handler after
\* these deliveries, with the summary delivered to the requesting chat first,
\* and that step persists the reset.
C14_OrderOfCompletion ==
    [][\A h \in Slots :
          /\ (hs[h].valid => LogInOrder(hs[h])) /\ (hs'[h].valid => LogInOrder(hs'[h]))
          /\ (hs[h].pc /= "idle" /\ (done'.reset \/ (state' /= state /\ AllPending')))
                => /\ hs[h].valid /\ done'.reset /\ hs'[h].pc = "idle"
                   /\ hs[h].pc \in {"summary", "broadcast", "warn"}
                   /\ hs[h].pc = "summary" => ~Configured
                   /\ SentBeforeReset(done')
                   /\ done'.sent[1][2] = hs[h].mensaje
                   /\ AllPending' /\ load_state(file') = Return(state')]_vars

\* a round was reset after the failed secondary delivery and the warning
C14_Witness ==
    /\ done.reset /\ AllPending /\ PersistedPending
    /\ Len(done.sent) = 2 /\ done.sent[2] = <<"chat", Aviso>>

\* C15: whenever no command is being handled (after load_state, and after any
\* handler has ended, normally or with an error) at least one group is pending.
C15_CollectingBetweenCommands ==
    (\A h \in Slots : hs[h].pc = "idle") => \E g \in GroupSet : state[g] = None

\* C16: each round is summarised at most once: no summary is built while the
\* values in the state are those a delivered summary has already listed.
C16_SummarisedOnce ==
    \A h \in Slots : hs[h].pc = "summary" => ~summarised

\* the step handles a valid report for g, whose value replaces the one g held
Replaced(g) ==
    \E h \in Slots : hs[h].pc = "idle" /\ hs'[h].pc = "ack" /\ hs'[h].grupo = g

\* the step ends a handler with the reset, after the summary that handler built,
\* which lists the value g holds, has been delivered to the requesting chat
ResetAfterSummary(g) ==
    \E h \in Slots :
        /\ hs[h].pc \in {"summary", "broadcast", "warn"}
        /\ done'.reset /\ Len(done'.sent) >= 1
        /\ done'.sent[1] = <<"chat", hs[h].mensaje>>
        /\ hs[h].mensaje[3][g] = state[g]

\* the summary a handler builds lists the value every group holds
SummaryListsState ==
    \A h \in Slots :
        (hs[h].pc = "ack" /\ hs'[h].pc = "summary") => hs'[h].mensaje[3] = state

\* C17 as stated: a value reported for g stays the value of g, stops and
\* restarts of the process included, until a later valid report for g replaces
\* it or a summary that lists it has been delivered; every summary lists the
\* values held when it is built.
C17_ReportKept ==
    [][/\ SummaryListsState
       /\ \A g \in GroupSet :
             (state[g] /= None /\ state'[g] /= state[g])
                 => Replaced(g) \/ ResetAfterSummary(g)]_vars

\* C17 amended: the same, unless the process is stopped inside save_state,
\* which leaves a data.json that load_state cannot read and starts from.
C17_ReportKeptUnlessSaveCut ==
    [][/\ SummaryListsState
       /\ \A g \in GroupSet :
             (state[g] /= None /\ state'[g] /= state[g])
                 => \/ Replaced(g)
                    \/ ResetAfterSummary(g)
                    \/ file /= NotJson /\ file' = NotJson /\ done'.kind = "load_state"]_vars

\* the process has been started again and a reported value, which only a
\* report can have put there, is still held while another group is pending
C17_Witness ==
    /\ done.kind = "load_state"
    /\ \E g \in GroupSet : state[g] = PyInt(1)
    /\ \E g \in GroupSet : state[g] = None

\* a state of the data model: every group unset or a non-negative integer
ValidState(st) == \A g \in GroupSet : st[g] = None \/ (st[g][1] = "int" /\ st[g][2] >= 0)

\* C18: for every valid state the process reaches, load_state on the record
\* save_state writes for it returns that state, a 0 as 0 and unset as unset.
C18_SaveLoadIdentity ==
    ValidState(state) => load_state(save_state(state)) = Return(state)

\* the process has been started again on a record save_state wrote, and holds a
\* group at 0, a group above 0 and a group unset
C18_Witness ==
    /\ done.kind = "load_state" /\ ValidState(state)
    /\ file = save_state(state)
    /\ \E g1, g2, g3 \in GroupSet :
          state[g1] = PyInt(0) /\ state[g2] = PyInt(1) /\ state[g3] = None

\* C19: once a report has been stored and every group holds a value there is no
\* pending group left to wait for, and with every started handler running to
\* its end the state returns to all six groups pending.
C19_RoundTerminates ==
    (\E h \in Slots : hs[h].pc = "ack" /\ all_reported(state)) ~> AllPending

====
